---- MODULE Spec2Model ----
(***************************************************************************)
(* Model of matchain-supply-apis: the vesting calculator                   *)
(* (supply.rs, calculate_pool_vesting), the circulating-supply request     *)
(* (supply.rs, get_circulating_supply), the configuration loader           *)
(* (config.rs) and the HTTP handlers (main.rs).                            *)
(*                                                                         *)
(* Amounts are ethers U256 values.  TLC's integers are 32 bits wide, so a  *)
(* U256 is a sequence of base-10^4 limbs, least significant first, with no *)
(* leading zero limb (zero is the empty sequence).  The arithmetic below   *)
(* is exact; the 256-bit width shows where the source tests for it         *)
(* (checked_add, checked_sub, checked_mul) or panics on it (+).            *)
(***************************************************************************)
EXTENDS Integers, Sequences, FiniteSets, TLC

\* Radix of one limb of the U256 representation.
Base == 10000

\* U256::MAX = 2^256 - 1.
U256_MAX ==
    <<9935, 2963, 9131, 4007, 5758, 394, 564, 6564, 9846, 3269,
      785, 6879, 5008, 7098, 4235, 6195, 3731, 892, 5792, 11>>

Zero == << >>

\* The largest element of a non-empty set of integers.
MaxOf(S) == CHOOSE m \in S : \A e \in S : e <= m

\* Limb i of s, zero beyond its length.
Limb(s, i) == IF i <= Len(s) THEN s[i] ELSE 0

\* Drops the leading (most significant) zero limbs.
Norm(s) ==
    LET nz == {i \in 1..Len(s) : s[i] # 0}
    IN  IF nz = {} THEN << >> ELSE SubSeq(s, 1, MaxOf(nz))

\* s * Base^k.
Shift(s, k) == IF s = << >> THEN << >> ELSE [i \in 1..k |-> 0] \o s

\* U256::from(n) for a machine integer n (three limbs hold 2^31).
U(n) == Norm(<<n % Base, (n \div Base) % Base, n \div (Base * Base)>>)

\* Ordering of two U256 values: -1, 0 or 1.
Cmp(a, b) ==
    IF Len(a) < Len(b) THEN -1
    ELSE IF Len(a) > Len(b) THEN 1
    ELSE LET df == {i \in 1..Len(a) : a[i] # b[i]}
         IN  IF df = {} THEN 0
             ELSE IF a[MaxOf(df)] < b[MaxOf(df)] THEN -1 ELSE 1

Lt(a, b) == Cmp(a, b) < 0
Le(a, b) == Cmp(a, b) <= 0
Gt(a, b) == Cmp(a, b) > 0
Ge(a, b) == Cmp(a, b) >= 0

\* The exact sum a + b (may exceed U256::MAX).  The carry into limb i is set
\* by a lower limb that overflows and is passed on by limbs that sum to Base-1.
Plus(a, b) ==
    LET n == IF Len(a) > Len(b) THEN Len(a) ELSE Len(b)
        s(i) == Limb(a, i) + Limb(b, i)
        carry(i) == IF \E j \in 1..(i - 1) :
                          /\ s(j) >= Base
                          /\ \A k \in (j + 1)..(i - 1) : s(k) = Base - 1
                    THEN 1 ELSE 0
    IN  Norm([i \in 1..(n + 1) |-> (s(i) + carry(i)) % Base])

\* The exact difference a - b, for a >= b, with the borrow found the same way.
Minus(a, b) ==
    LET borrow(i) == IF \E j \in 1..(i - 1) :
                           /\ a[j] < Limb(b, j)
                           /\ \A k \in (j + 1)..(i - 1) : a[k] = Limb(b, k)
                     THEN 1 ELSE 0
    IN  Norm([i \in 1..Len(a) |->
                 (a[i] - Limb(b, i) - borrow(i) + Base) % Base])

\* a * d for one limb d: the low and the high halves of the limb products.
MulLimb(a, d) ==
    Plus(Norm([i \in 1..Len(a) |-> (a[i] * d) % Base]),
         Shift(Norm([i \in 1..Len(a) |-> (a[i] * d) \div Base]), 1))

RECURSIVE ColSum(_, _, _, _)
\* The sum of a[i] * b[k + 1 - i] over i..Len(a): column k of the product
\* (at most 20 terms for U256 operands, so it fits a machine integer).
ColSum(a, b, k, i) ==
    IF i > Len(a) \/ i > k THEN 0
    ELSE a[i] * Limb(b, k + 1 - i) + ColSum(a, b, k, i + 1)

\* The exact product a * b (may exceed U256::MAX): the columns of the
\* schoolbook product, each split into three limbs.
Times(a, b) ==
    IF a = << >> \/ b = << >> THEN << >>
    ELSE LET n == Len(a) + Len(b) - 1
             col == [k \in 1..n |-> ColSum(a, b, k, 1)]
         IN  Plus(Plus(Norm([k \in 1..n |-> col[k] % Base]),
                       Shift(Norm([k \in 1..n |-> (col[k] \div Base) % Base]), 1)),
                  Shift(Norm([k \in 1..n |-> col[k] \div (Base * Base)]), 2))

RECURSIVE ShortStep(_, _, _, _, _)
RECURSIVE ShortStepDown(_, _, _, _, _)
\* Short division by a machine integer m < 2^31 / Base: limbs a[i], .., a[1]
\* still to bring down, q the quotient limbs found so far, r the remainder;
\* t is r with limb a[i] brought down.
ShortStep(a, m, i, q, r) ==
    IF i = 0 THEN [quot |-> Norm(q), rem |-> U(r)]
    ELSE ShortStepDown(a, m, i, q, r * Base + a[i])
ShortStepDown(a, m, i, q, t) ==
    IF t >= 0 THEN ShortStep(a, m, i - 1, <<t \div m>> \o q, t % m)
    ELSE [quot |-> Zero, rem |-> Zero]

RECURSIVE QuotLimb(_, _, _, _)
\* The largest limb d in lo..hi with d * b <= r (binary search).
QuotLimb(r, b, lo, hi) ==
    IF lo >= hi THEN lo
    ELSE LET mid == (lo + hi + 1) \div 2
         IN  IF Le(MulLimb(b, mid), r)
             THEN QuotLimb(r, b, mid, hi)
             ELSE QuotLimb(r, b, lo, mid - 1)

\* The limbs of r from position k up, as a machine integer (at most two limbs).
TopOf(r, k) == Limb(r, k) + Base * Limb(r, k + 1)

\* The quotient limb of r by b lies between the quotients of the leading
\* limbs of r by the leading limb of b, rounded up and down.
QuotLimbOf(r, b) ==
    QuotLimb(r, b, TopOf(r, Len(b)) \div (b[Len(b)] + 1),
             IF TopOf(r, Len(b)) \div b[Len(b)] < Base
             THEN TopOf(r, Len(b)) \div b[Len(b)] ELSE Base - 1)

RECURSIVE LongStep(_, _, _, _, _)
RECURSIVE LongStepQuot(_, _, _, _, _)
RECURSIVE LongStepRem(_, _, _, _, _, _)
RECURSIVE LongStepNext(_, _, _, _, _)
\* Long division by b of three limbs or more: as ShortStep, with r a U256.
\* One step brings limb a[i] down (r1), finds the quotient limb d and takes
\* d * b from r1.
LongStep(a, b, i, q, r) ==
    IF i = 0 THEN [quot |-> Norm(q), rem |-> r]
    ELSE LongStepQuot(a, b, i, q, Norm(<<a[i]>> \o r))
LongStepQuot(a, b, i, q, r1) ==
    LongStepRem(a, b, i, q, QuotLimbOf(r1, b), r1)
LongStepRem(a, b, i, q, d, r1) ==
    LongStepNext(a, b, i, <<d>> \o q, Minus(r1, MulLimb(b, d)))
\* The guard holds always: it has q and r computed before the next step.
LongStepNext(a, b, i, q, r2) ==
    IF Len(q) >= 0 /\ Len(r2) >= 0 THEN LongStep(a, b, i - 1, q, r2)
    ELSE [quot |-> Zero, rem |-> Zero]

\* The quotient and remainder of the operands scaled by f, remainder scaled back.
Unscaled(res, f) ==
    [quot |-> res.quot,
     rem |-> ShortStep(res.rem, f, Len(res.rem), << >>, 0).quot]
LongDiv(an, bn, f) ==
    IF Len(an) >= 0 /\ Len(bn) >= 0
    THEN Unscaled(LongStep(an, bn, Len(an), << >>, << >>), f)
    ELSE [quot |-> Zero, rem |-> Zero]

\* a / b and a % b of U256, for b > 0.  A divisor of one or two limbs below
\* 2^31 / Base is divided by directly; a longer one is first scaled, with the
\* dividend, so that its leading limb is at least Base / 2.
DivMod(a, b) ==
    IF Len(b) <= 2 /\ TopOf(b, 1) < 200000
    THEN ShortStep(a, TopOf(b, 1), Len(a), << >>, 0)
    ELSE LongDiv(MulLimb(a, Base \div (b[Len(b)] + 1)),
                 MulLimb(b, Base \div (b[Len(b)] + 1)),
                 Base \div (b[Len(b)] + 1))
Div(a, b) == DivMod(a, b).quot
Mod(a, b) == DivMod(a, b).rem

Min(a, b) == IF Le(a, b) THEN a ELSE b

\* Option<U256>.
Some(v) == [some |-> TRUE, v |-> v]
None == [some |-> FALSE, v |-> Zero]
unwrap_or(o, d) == IF o.some THEN o.v ELSE d

checked_sub(a, b) == IF Ge(a, b) THEN Some(Minus(a, b)) ELSE None
\* Some(v) when v is within U256, None when the operation overflowed.
Checked(v) == IF Le(v, U256_MAX) THEN Some(v) ELSE None
checked_add(a, b) == Checked(Plus(a, b))
checked_mul(a, b) == Checked(Times(a, b))

(***************************************************************************)
(* supply.rs: calculate_pool_vesting                                       *)
(***************************************************************************)

\* U256::from(10u128.pow(27)) and U256::from(10u128.pow(16)).
TEN_POW_27 == <<0, 0, 0, 0, 0, 0, 1000>>
TEN_POW_16 == <<0, 0, 0, 0, 1>>

MAX_DAYS == 2190
MIN_RATIO_PRECISION == 1000
SECONDS_PER_DAY == 86400
STEP_DAYS == 90
MAX_PERIODS == 6
step_percentage == 166700

\* The mutant of InvalidVestingParameters: the two periods are not checked.
InvalidVestingParameters_periods_unchecked(initial, cliff, vesting, ratio_precision) ==
    \/ Gt(initial, TEN_POW_27)
    \/ Lt(ratio_precision, U(MIN_RATIO_PRECISION))
    \/ Gt(ratio_precision, TEN_POW_16)

\* The bounds check that opens calculate_pool_vesting.
InvalidVestingParameters(initial, cliff, vesting, ratio_precision) ==
    \/ Gt(initial, TEN_POW_27)
    \/ Gt(cliff, U(MAX_DAYS))
    \/ Gt(vesting, U(MAX_DAYS))
    \/ Lt(ratio_precision, U(MIN_RATIO_PRECISION))
    \/ Gt(ratio_precision, TEN_POW_16)

\* tge_percentage * (ratio_precision / U256::from(100u64)).
tge_scaled(tge_percentage, ratio_precision) ==
    Times(tge_percentage, Div(ratio_precision, U(100)))

RECURSIVE SteppedLoop(_, _, _, _)
RECURSIVE SteppedRelease(_, _, _, _, _)
RECURSIVE SteppedNext(_, _, _, _)
\* for _ in 0..periods: the pair (unlocked, remaining) after the loop.
SteppedLoop(periods, unlocked, remaining, ratio_precision) ==
    IF periods = 0 THEN [unlocked |-> unlocked, remaining |-> remaining]
    ELSE SteppedRelease(periods, unlocked, remaining, ratio_precision,
                        Div(Times(remaining, U(step_percentage)), ratio_precision))
\* The body of the loop once release is computed.
SteppedRelease(periods, unlocked, remaining, ratio_precision, release) ==
    IF Len(release) >= 0
    THEN SteppedNext(periods - 1,
                     unwrap_or(checked_add(unlocked, release), unlocked),
                     unwrap_or(checked_sub(remaining, release), remaining),
                     ratio_precision)
    ELSE [unlocked |-> Zero, remaining |-> Zero]
\* The next turn of the loop.  The guards of SteppedRelease and SteppedNext
\* hold always: they have the values computed before they are passed on.
SteppedNext(periods, unlocked, remaining, ratio_precision) ==
    IF Len(unlocked) >= 0 /\ Len(remaining) >= 0
    THEN SteppedLoop(periods, unlocked, remaining, ratio_precision)
    ELSE [unlocked |-> Zero, remaining |-> Zero]

\* periods = min(periods_passed, max_periods).
stepped_periods(cliff, days_passed) ==
    Min(Div(unwrap_or(checked_sub(days_passed, cliff), Zero), U(STEP_DAYS)),
        U(MAX_PERIODS))

\* unlocked after the loop that starts from unlocked = tge_scaled and
\* remaining = ratio_precision - tge_scaled.
stepped_unlocked(scaled, periods, ratio_precision) ==
    SteppedNext(Limb(periods, 1), scaled,
                unwrap_or(checked_sub(ratio_precision, scaled), Zero),
                ratio_precision).unlocked

\* The mutant of stepped_unlocked_fraction: the final cmp::min is dropped.
stepped_unlocked_fraction_unclamped(tge_percentage, cliff, ratio_precision, days_passed) ==
    IF Lt(days_passed, cliff) THEN tge_scaled(tge_percentage, ratio_precision)
    ELSE stepped_unlocked(tge_scaled(tge_percentage, ratio_precision),
                          stepped_periods(cliff, days_passed), ratio_precision)

\* The "stepped" branch of unlocked_fraction.
stepped_unlocked_fraction(tge_percentage, cliff, ratio_precision, days_passed) ==
    IF Lt(days_passed, cliff) THEN tge_scaled(tge_percentage, ratio_precision)
    ELSE Min(stepped_unlocked(tge_scaled(tge_percentage, ratio_precision),
                              stepped_periods(cliff, days_passed), ratio_precision),
             ratio_precision)

\* tge_scaled + vesting_progress * ratio_precision / vesting, at most
\* ratio_precision.
linear_fraction(scaled, vesting_progress, vesting, ratio_precision) ==
    IF Len(scaled) < 0 \/ Len(vesting_progress) < 0 THEN Zero
    ELSE
    Min(unwrap_or(
            checked_add(
                Div(unwrap_or(checked_mul(vesting_progress, ratio_precision), Zero),
                    vesting),
                scaled),
            scaled),
        ratio_precision)

\* The mutant of linear_unlocked_fraction: the vesting progress is counted
\* from the TGE instead of from the end of the cliff.
linear_unlocked_fraction_from_tge(tge_percentage, cliff, vesting, ratio_precision, days_passed) ==
    IF Lt(days_passed, cliff) THEN tge_scaled(tge_percentage, ratio_precision)
    ELSE IF Gt(vesting, Zero)
    THEN linear_fraction(tge_scaled(tge_percentage, ratio_precision), days_passed,
                         vesting, ratio_precision)
    ELSE tge_scaled(tge_percentage, ratio_precision)

\* The else branch of unlocked_fraction (linear vesting).
linear_unlocked_fraction(tge_percentage, cliff, vesting, ratio_precision, days_passed) ==
    IF Lt(days_passed, cliff) THEN tge_scaled(tge_percentage, ratio_precision)
    ELSE IF Gt(vesting, Zero)
    THEN linear_fraction(tge_scaled(tge_percentage, ratio_precision),
                         unwrap_or(checked_sub(days_passed, cliff), Zero),
                         vesting, ratio_precision)
    ELSE tge_scaled(tge_percentage, ratio_precision)

\* let unlocked_fraction = if vesting_type == "stepped" { .. } else { .. }
unlocked_fraction_of(tge_percentage, cliff, vesting, ratio_precision, days_passed, vesting_type) ==
    IF vesting_type = "stepped"
    THEN stepped_unlocked_fraction(tge_percentage, cliff, ratio_precision, days_passed)
    ELSE linear_unlocked_fraction(tge_percentage, cliff, vesting, ratio_precision,
                                  days_passed)

\* The PoolCalculation built from days_passed and unlocked_fraction.
PoolCalculation(initial, cliff, vesting, ratio_precision, days_passed, unlocked_fraction) ==
    IF Len(unlocked_fraction) < 0 THEN << >>
    ELSE
    [initial |-> initial, ratio_precision |-> ratio_precision,
     locked_amount |->
         unwrap_or(checked_sub(initial,
                               IF Gt(ratio_precision, Zero)
                               THEN Div(Times(initial, unlocked_fraction),
                                        ratio_precision)
                               ELSE Zero),
                   Zero),
     days_passed |-> days_passed,
     days_until_lock_ends |-> unwrap_or(checked_sub(cliff, days_passed), Zero),
     days_until_vesting_ends |->
         unwrap_or(checked_sub(unwrap_or(checked_add(cliff, vesting), cliff),
                               days_passed),
                   Zero),
     unlocked_fraction |-> unlocked_fraction]

\* calculate_pool_vesting from days_passed on.
pool_vesting_after(initial, tge_percentage, cliff, vesting, ratio_precision, vesting_type, days_passed) ==
    IF Len(days_passed) < 0 THEN << >>
    ELSE
    PoolCalculation(initial, cliff, vesting, ratio_precision, days_passed,
                    unlocked_fraction_of(tge_percentage, cliff, vesting,
                                         ratio_precision, days_passed, vesting_type))

\* calculate_pool_vesting: the PoolCalculation it returns.
calculate_pool_vesting(initial, tge_percentage, cliff, vesting, ratio_precision, current_ts, tge_ts, vesting_type) ==
    IF InvalidVestingParameters(initial, cliff, vesting, ratio_precision)
    THEN [initial |-> initial, ratio_precision |-> ratio_precision,
          locked_amount |-> Zero, days_passed |-> Zero,
          days_until_lock_ends |-> Zero, days_until_vesting_ends |-> Zero,
          unlocked_fraction |-> Zero]
    ELSE pool_vesting_after(initial, tge_percentage, cliff, vesting, ratio_precision,
                            vesting_type,
                            Div(unwrap_or(checked_sub(current_ts, tge_ts), Zero),
                                U(SECONDS_PER_DAY)))

(***************************************************************************)
(* utils.rs: u256_to_human.  A String is a sequence of one-character       *)
(* strings.                                                                *)
(***************************************************************************)

DigitChar == <<"0", "1", "2", "3", "4", "5", "6", "7", "8", "9">>

\* The four decimal digits of one limb, most significant first.
LimbDigits(l) ==
    <<DigitChar[(l \div 1000) + 1], DigitChar[((l \div 100) % 10) + 1],
      DigitChar[((l \div 10) % 10) + 1], DigitChar[(l % 10) + 1]>>

\* U256::to_string: the decimal digits with no leading zero, "0" for zero.
to_string(value) ==
    IF value = Zero THEN <<"0">>
    ELSE LET n == Len(value)
             all == [k \in 1..(4 * n) |->
                        LimbDigits(value[n - ((k - 1) \div 4)])[((k - 1) % 4) + 1]]
             first == CHOOSE k \in 1..(4 * n) :
                          /\ all[k] # "0"
                          /\ \A j \in 1..(k - 1) : all[j] = "0"
         IN  SubSeq(all, first, 4 * n)

\* U256::exp10(n), for 10^n within U256.
exp10(n) ==
    Shift(U(CASE n % 4 = 0 -> 1 [] n % 4 = 1 -> 10 [] n % 4 = 2 -> 100
              [] OTHER -> 1000),
          n \div 4)

\* U256::exp10(n) multiplies by 10 n times with `*`, which panics when the
\* product is beyond 2^256 - 1.
exp10_overflows(n) == Gt(exp10(n), U256_MAX)

\* u256_to_human calls exp10 when decimals is not 0.
exp10_panics(decimals) == decimals # 0 /\ exp10_overflows(decimals)

\* while fraction.len() < width { fraction.insert(0, '0') }
PadLeft(str, width) ==
    IF Len(str) >= width THEN str
    ELSE [k \in 1..(width - Len(str)) |-> "0"] \o str

\* while fraction.ends_with('0') && fraction.len() > 1 { fraction.pop() }
StripTrailingZeros(str) ==
    IF str = << >> THEN str
    ELSE LET keep == {k \in 1..Len(str) : str[k] # "0"} \cup {1}
         IN  SubSeq(str, 1, MaxOf(keep))

\* The fraction string: left-padded to decimals digits, trailing zeros off.
fraction_string(fraction_part, decimals) ==
    StripTrailingZeros(PadLeft(to_string(fraction_part), decimals))

\* if fraction == "0" || fraction.is_empty() { integer } else { integer.fraction }
human_string(integer, fraction) ==
    IF fraction = <<"0">> \/ fraction = << >> THEN integer
    ELSE integer \o <<".">> \o fraction

\* The string of integer = value / divisor and fraction_part = value % divisor.
human_of(divmod, decimals) ==
    IF Len(divmod.quot) < 0 THEN << >>
    ELSE
    human_string(to_string(divmod.quot), fraction_string(divmod.rem, decimals))

u256_to_human(value, decimals) ==
    IF decimals = 0 THEN to_string(value)
    ELSE IF exp10(decimals) = Zero THEN <<"0">>
    ELSE human_of(DivMod(value, exp10(decimals)), decimals)

\* A call of u256_to_human: the String, or the panic of exp10.
u256_to_human_call(value, decimals) ==
    IF exp10_panics(decimals)
    THEN [outcome |-> "Panic", error |-> "arithmetic operation overflow"]
    ELSE [outcome |-> "Ok", value |-> u256_to_human(value, decimals)]

(***************************************************************************)
(* config.rs: the two address lists and what main reads from them.         *)
(* An address is a string; an AddressInfo is [address, chain].             *)
(***************************************************************************)

AddressInfo(address, chain) == [address |-> address, chain |-> chain]

\* A PoolEntry of excluded_address_list.json (tge_percentage, cliff, vesting
\* and balance_at_tge are u64 in the file, held here as U256).
PoolEntry(addresses, tge_percentage, cliff, vesting, vesting_type, balance_at_tge) ==
    [addresses |-> addresses, tge_percentage |-> tge_percentage, cliff |-> cliff,
     vesting |-> vesting, vesting_type |-> vesting_type,
     balance_at_tge |-> balance_at_tge]

RECURSIVE FlatAddresses(_)
\* entries.flat_map(|entry| entry.addresses)
FlatAddresses(entries) ==
    IF entries = << >> THEN << >>
    ELSE Head(entries).addresses \o FlatAddresses(Tail(entries))

\* read_excluded_addresses: every address of every entry of the excluded
\* list, in file order.  config.rs returns the bare addresses and AppState
\* (main.rs) holds (Address, String) pairs, so the chain of the AddressInfo
\* is kept with each address.
read_excluded_addresses(excluded_list) == FlatAddresses(excluded_list)

\* 10u64.pow(18): the wei of one token.
WEI == exp10(18)

\* read_pool_data: the same file read as vesting pools.
read_pool_data(excluded_list) ==
    [k \in 1..Len(excluded_list) |->
        [addrs |-> excluded_list[k].addresses,
         tge_percentage |-> excluded_list[k].tge_percentage,
         cliff |-> excluded_list[k].cliff,
         vesting |-> excluded_list[k].vesting,
         vesting_type |-> excluded_list[k].vesting_type,
         balance_at_tge |-> Times(excluded_list[k].balance_at_tge, WEI)]]

\* read_onchain_pool_addresses: pool_address_list.json as it stands.
read_onchain_pool_addresses(pool_list) == pool_list

\* validate_address_lists: the on-chain pool addresses that are also in the
\* excluded list; Ok when there is none.
validate_address_lists(excluded_list, pool_list) ==
    LET excluded == read_excluded_addresses(excluded_list)
        duplicates ==
            SelectSeq(read_onchain_pool_addresses(pool_list),
                      LAMBDA pool_addr :
                          \E k \in 1..Len(excluded) : excluded[k].address = pool_addr)
    IN  IF duplicates # << >> THEN [ok |-> FALSE, duplicates |-> duplicates]
        ELSE [ok |-> TRUE, duplicates |-> << >>]

(***************************************************************************)
(* The two chains as the node answers for them.  A world gives, for each   *)
(* chain, the token's total supply and balances and, on Matchain, the      *)
(* fields of the staking pools, the timestamp of each block and decimals.  *)
(***************************************************************************)

\* Address::zero(), where burnt tokens are held.
ZERO_ADDRESS == "0x0"

\* n whole tokens in wei.
Tok(n) == Times(U(n), WEI)

\* 0.5 s per block: 172800 blocks a day.
BLOCKS_PER_DAY == 172800

Call(to, fn, arg) == [to |-> to, fn |-> fn, arg |-> arg]

\* What the node returns for one call on a chain.
EvalCall(world, chain, call) ==
    CASE call.fn = "total_supply" -> world.total[chain]
      [] call.fn = "balance_of" ->
            IF <<chain, call.arg>> \in DOMAIN world.balance
            THEN world.balance[<<chain, call.arg>>] ELSE Zero
      [] call.fn = "initial_self_stake_amount" -> world.pool[call.to].initial
      [] call.fn = "initial_lock_period" -> world.pool[call.to].lock_period
      [] call.fn = "vesting_duration" -> world.pool[call.to].vesting_duration
      [] OTHER -> world.pool[call.to].ratio_precision

(***************************************************************************)
(* supply.rs: get_circulating_supply, the part after the last await.       *)
(***************************************************************************)

RECURSIVE FlatCalls(_)
FlatCalls(groups) ==
    IF groups = << >> THEN << >> ELSE Head(groups) \o FlatCalls(Tail(groups))

\* The excluded addresses of one chain, in list order.
OnChain(excluded_addresses, chain) ==
    SelectSeq(excluded_addresses, LAMBDA info : info.chain = chain)

\* The mutant of matchain_calls: the calls of the pools are added before the
\* balances of the excluded addresses.
matchain_calls_pools_first(excluded_addresses, onchain_pool_addresses) ==
    <<Call("token", "total_supply", ""), Call("token", "balance_of", ZERO_ADDRESS)>>
    \o FlatCalls([k \in 1..Len(onchain_pool_addresses) |->
          <<Call(onchain_pool_addresses[k], "initial_self_stake_amount", ""),
            Call(onchain_pool_addresses[k], "initial_lock_period", ""),
            Call(onchain_pool_addresses[k], "vesting_duration", ""),
            Call(onchain_pool_addresses[k], "ratio_precision", "")>>])
    \o [k \in 1..Len(OnChain(excluded_addresses, "Matchain")) |->
          Call("token", "balance_of", OnChain(excluded_addresses, "Matchain")[k].address)]

\* The calls added to the Matchain multicall, in order.
matchain_calls(excluded_addresses, onchain_pool_addresses) ==
    LET excluded == OnChain(excluded_addresses, "Matchain")
    IN  <<Call("token", "total_supply", ""), Call("token", "balance_of", ZERO_ADDRESS)>>
        \o [k \in 1..Len(excluded) |-> Call("token", "balance_of", excluded[k].address)]
        \o FlatCalls([k \in 1..Len(onchain_pool_addresses) |->
              <<Call(onchain_pool_addresses[k], "initial_self_stake_amount", ""),
                Call(onchain_pool_addresses[k], "initial_lock_period", ""),
                Call(onchain_pool_addresses[k], "vesting_duration", ""),
                Call(onchain_pool_addresses[k], "ratio_precision", "")>>])

\* The calls added to the BSC multicall, in order.
bsc_calls(excluded_addresses) ==
    LET excluded == OnChain(excluded_addresses, "BSC")
    IN  <<Call("token", "total_supply", ""), Call("token", "balance_of", ZERO_ADDRESS)>>
        \o [k \in 1..Len(excluded) |-> Call("token", "balance_of", excluded[k].address)]

\* The calls of either multicall of get_total_supply.
total_supply_calls ==
    <<Call("token", "total_supply", ""), Call("token", "balance_of", ZERO_ADDRESS)>>

\* Result<_, anyhow::Error> and a panic (an unwrap of None, an index out of
\* range, an arithmetic overflow), which unwinds the task without a result.
Ok(v) == [outcome |-> "Ok", value |-> v]
Err(msg) == [outcome |-> "Err", error |-> msg]
Panic(msg) == [outcome |-> "Panic", error |-> msg]

\* The record kept for one on-chain pool from the four values read for it,
\* the two periods converted from blocks to days.
onchain_pool_record(initial, lock_days, vesting_days, ratio_precision) ==
    IF InvalidVestingParameters(initial, lock_days, vesting_days, ratio_precision)
    THEN [initial |-> Zero, lock_days |-> Zero, vesting_days |-> Zero,
          ratio_precision |-> U(1000000)]
    ELSE [initial |-> initial, lock_days |-> lock_days,
          vesting_days |-> vesting_days, ratio_precision |-> ratio_precision]

\* The decoder: m_iter and b_iter consumed in the order of the calls.  The
\* first value missing decides the outcome: `?` for the total supply and the
\* burn balance of a chain, unwrap() for every other position.
decode_results(excluded_addresses, onchain_pool_addresses, matchain_results, bsc_results) ==
    LET em == Len(OnChain(excluded_addresses, "Matchain"))
        eb == Len(OnChain(excluded_addresses, "BSC"))
        np == Len(onchain_pool_addresses)
        m  == matchain_results
        b  == bsc_results
    IN  IF Len(m) < 1 THEN Err("Missing Matchain total supply")
        ELSE IF Len(m) < 2 THEN Err("Missing Matchain burn balance")
        ELSE IF Len(m) < 2 + em THEN Panic("Missing excluded balance")
        ELSE IF Len(m) < 2 + em + 4 * np THEN Panic("Missing pool value")
        ELSE IF Len(b) < 1 THEN Err("Missing BSC total supply")
        ELSE IF Len(b) < 2 THEN Err("Missing BSC burn balance")
        ELSE IF Len(b) < 2 + eb THEN Panic("Missing excluded balance")
        ELSE Ok([total_m |-> m[1],
                 burn_m |-> m[2],
                 matchain_excluded_balances |-> SubSeq(m, 3, 2 + em),
                 onchain_pool_data |->
                     [k \in 1..np |->
                         onchain_pool_record(
                             m[2 + em + 4 * (k - 1) + 1],
                             Div(m[2 + em + 4 * (k - 1) + 2], U(BLOCKS_PER_DAY)),
                             Div(m[2 + em + 4 * (k - 1) + 3], U(BLOCKS_PER_DAY)),
                             m[2 + em + 4 * (k - 1) + 4])],
                 total_b |-> b[1],
                 burn_b |-> b[2],
                 bsc_excluded_balances |-> SubSeq(b, 3, 2 + eb)])

\* (total_m - burn_m, or 0) + (total_b - burn_b, or 0), as an exact sum.
total_supply_of(total_m, burn_m, total_b, burn_b) ==
    Plus(unwrap_or(checked_sub(total_m, burn_m), Zero),
         unwrap_or(checked_sub(total_b, burn_b), Zero))

RECURSIVE SumOf(_)
\* fold(U256::zero(), |acc, &b| acc + b), as an exact sum.
SumOf(balances) ==
    IF balances = << >> THEN Zero
    ELSE Plus(Head(balances), SumOf(Tail(balances)))

RECURSIVE AddLocked(_, _, _)
\* locked_balance after the calculations k.. of calcs are added to it with
\* checked_add(..).unwrap_or(locked_balance).
AddLocked(calcs, k, locked_balance) ==
    IF k > Len(calcs) THEN locked_balance
    ELSE AddLocked(calcs, k + 1,
                   unwrap_or(checked_add(locked_balance, calcs[k].locked_amount),
                             locked_balance))

\* The mutant of circulating_supply_of: a failed subtraction of the excluded
\* balance falls back to the total supply instead of zero.
circulating_supply_unclamped(total_supply, excluded_balance, locked_balance) ==
    unwrap_or(checked_sub(unwrap_or(checked_sub(total_supply, excluded_balance),
                                    total_supply),
                          locked_balance),
              Zero)

\* total_supply.checked_sub(excluded_balance).unwrap_or(0)
\*             .checked_sub(locked_balance).unwrap_or(0)
circulating_supply_of(total_supply, excluded_balance, locked_balance) ==
    unwrap_or(checked_sub(unwrap_or(checked_sub(total_supply, excluded_balance), Zero),
                          locked_balance),
              Zero)

\* The balance the breakdown loop shows for excluded address i (from 0).
\* For an address not on Matchain the index is i - matchain_len in usize: when
\* that underflows the subtraction panics if overflow checks are compiled in
\* and wraps otherwise, and the wrapped index is beyond the vector.
excluded_detail_balance(excluded_addresses, i, matchain_excluded_balances, bsc_excluded_balances, overflow_checks) ==
    LET mlen == Len(matchain_excluded_balances)
    IN  IF excluded_addresses[i + 1].chain = "Matchain"
        THEN Ok(IF i < mlen THEN matchain_excluded_balances[i + 1] ELSE Zero)
        ELSE IF i < mlen
        THEN (IF overflow_checks THEN Panic("attempt to subtract with overflow")
              ELSE Ok(Zero))
        ELSE Ok(IF i - mlen < Len(bsc_excluded_balances)
                THEN bsc_excluded_balances[i - mlen + 1] ELSE Zero)

\* The PoolCalculation of every off-chain pool entry, ratio_precision 1_000_000.
wallet_calcs(app, current_ts) ==
    [k \in 1..Len(app.pool_data) |->
        calculate_pool_vesting(app.pool_data[k].balance_at_tge,
                               app.pool_data[k].tge_percentage,
                               app.pool_data[k].cliff,
                               app.pool_data[k].vesting,
                               U(1000000), current_ts, app.tge_timestamp,
                               app.pool_data[k].vesting_type)]

\* The PoolCalculation of every on-chain pool: linear, nothing unlocked at TGE.
pool_calcs(app, onchain_pool_data, current_ts) ==
    [k \in 1..Len(onchain_pool_data) |->
        calculate_pool_vesting(onchain_pool_data[k].initial, Zero,
                               onchain_pool_data[k].lock_days,
                               onchain_pool_data[k].vesting_days,
                               onchain_pool_data[k].ratio_precision,
                               current_ts, app.tge_timestamp, "linear")]

\* wallet_details: one entry for each off-chain pool.
wallet_details_of(app, calcs) ==
    [k \in 1..Len(app.pool_data) |->
        [addrs |-> app.pool_data[k].addrs,
         initial_tokens |-> u256_to_human(app.pool_data[k].balance_at_tge, app.decimals),
         locked_tokens |-> u256_to_human(calcs[k].locked_amount, app.decimals),
         unlocked_percent |->
             Div(Times(calcs[k].unlocked_fraction, U(100)), U(1000000))]]

\* pool_details: one entry for each on-chain pool.
pool_details_of(app, onchain_pool_data, calcs) ==
    [k \in 1..Len(onchain_pool_data) |->
        [addr |-> app.onchain_pool_addresses[k],
         initial_tokens |-> u256_to_human(onchain_pool_data[k].initial, app.decimals),
         locked_tokens |-> u256_to_human(calcs[k].locked_amount, app.decimals),
         unlocked_percent |->
             Div(Times(calcs[k].unlocked_fraction, U(100)),
                 onchain_pool_data[k].ratio_precision),
         lock_days |-> onchain_pool_data[k].lock_days,
         vesting_days |-> onchain_pool_data[k].vesting_days]]

\* The outcome of the balance lookup for every excluded address.
detail_balances_of(app, d, overflow_checks) ==
    [k \in 1..Len(app.excluded_addresses) |->
        excluded_detail_balance(app.excluded_addresses, k - 1,
                                d.matchain_excluded_balances,
                                d.bsc_excluded_balances, overflow_checks)]

\* excluded_details: one entry for each excluded address.
excluded_details_of(app, detail_balances) ==
    [k \in 1..Len(app.excluded_addresses) |->
        [addr |-> app.excluded_addresses[k].address,
         chain |-> app.excluded_addresses[k].chain,
         balance_tokens |-> u256_to_human(detail_balances[k].value, app.decimals)]]

\* Ok(u256_to_human(circulating_supply, decimals)), with the figures and the
\* breakdown that the function prints on the way.
supply_report(app, total_supply, excluded_balance, locked_balance, circulating_supply, wallet_details, pool_details, excluded_details) ==
    [outcome |-> "Ok",
     value |-> u256_to_human(circulating_supply, app.decimals),
     total_supply |-> total_supply,
     excluded_balance |-> excluded_balance,
     locked_balance |-> locked_balance,
     circulating_supply |-> circulating_supply,
     wallet_details |-> wallet_details,
     pool_details |-> pool_details,
     excluded_details |-> excluded_details]

\* get_circulating_supply from the totals on: the two loops over the pools,
\* the breakdown loops and the final subtraction.  total_supply and
\* excluded_balance are exact sums: U256 `+` panics beyond 2^256 - 1.
supply_from_totals(app, d, total_supply, excluded_balance, w_calcs, p_calcs, locked_balance, detail_balances) ==
    IF \/ Gt(total_supply, U256_MAX)
       \/ Gt(excluded_balance, U256_MAX)
       \/ exp10_panics(app.decimals)
    THEN Panic("arithmetic operation overflow")
    ELSE IF \E k \in 1..Len(detail_balances) : detail_balances[k].outcome = "Panic"
    THEN Panic("attempt to subtract with overflow")
    ELSE supply_report(app, total_supply, excluded_balance, locked_balance,
                       circulating_supply_of(total_supply, excluded_balance,
                                             locked_balance),
                       wallet_details_of(app, w_calcs),
                       pool_details_of(app, d.onchain_pool_data, p_calcs),
                       excluded_details_of(app, detail_balances))

\* get_circulating_supply from the two sets of PoolCalculation on.
supply_from_calcs(app, d, w_calcs, p_calcs, overflow_checks) ==
    supply_from_totals(app, d,
                       total_supply_of(d.total_m, d.burn_m, d.total_b, d.burn_b),
                       SumOf(d.matchain_excluded_balances \o d.bsc_excluded_balances),
                       w_calcs, p_calcs,
                       AddLocked(p_calcs, 1, AddLocked(w_calcs, 1, Zero)),
                       detail_balances_of(app, d, overflow_checks))

\* get_circulating_supply from the decoded values on.
supply_from_decoded(app, current_ts, decoded, overflow_checks) ==
    IF decoded.outcome # "Ok" THEN decoded
    ELSE supply_from_calcs(app, decoded.value, wallet_calcs(app, current_ts),
                           pool_calcs(app, decoded.value.onchain_pool_data, current_ts),
                           overflow_checks)

\* get_circulating_supply from the decoding on.
circulating_supply_from(app, current_ts, matchain_results, bsc_results, overflow_checks) ==
    supply_from_decoded(app, current_ts,
                        decode_results(app.excluded_addresses,
                                       app.onchain_pool_addresses,
                                       matchain_results, bsc_results),
                        overflow_checks)

\* get_total_supply from the indexing of the two result vectors on.
total_supply_from(app, matchain_results, bsc_results) ==
    IF Len(matchain_results) < 2 \/ Len(bsc_results) < 2
    THEN Panic("index out of bounds")
    ELSE LET value == total_supply_of(matchain_results[1], matchain_results[2],
                                      bsc_results[1], bsc_results[2])
         IN  IF \/ Gt(value, U256_MAX)
                \/ Gt(Plus(matchain_results[2], bsc_results[2]), U256_MAX)
                \/ exp10_panics(app.decimals)
             THEN Panic("arithmetic operation overflow")
             ELSE Ok(u256_to_human(value, app.decimals))

(***************************************************************************)
(* The calculator on its own: the inputs are drawn in the initial state,   *)
(* Calculate applies calculate_pool_vesting at the current timestamp and   *)
(* Advance moves the current timestamp forward, keeping the last result.   *)
(***************************************************************************)
VARIABLES
    vin,    \* the inputs of calculate_pool_vesting other than current_ts
    now,    \* current_ts
    calc,   \* the PoolCalculation for now, or NoCalc
    prev,   \* the PoolCalculation of the last earlier timestamp, or NoCalc
    excluded_address_list,  \* config/excluded_address_list.json
    pool_address_list,      \* config/pool_address_list.json
    world,      \* what the two chains hold
    head,       \* the latest block number of Matchain
    main_pc,    \* main: "start", "serving" or "exited"
    app,        \* the AppState main builds, or NoApp
    req,        \* the request in progress and its local variables
    fin,        \* the arguments of u256_to_human: [value, decimals]
    fout,       \* what the call returns, or NoCalc
    fback       \* the amount read back from the string returned, or NoCalc

vestVars == <<vin, now, calc, prev>>
serverVars == <<excluded_address_list, pool_address_list, world, head, main_pc, app, req>>
formatVars == <<fin, fout, fback>>

NoCalc == [done |-> FALSE]
Done(c) == [done |-> TRUE, result |-> c]

\* A TGE timestamp as the environment variable TGE_TIMESTAMP may give it.
TGE_TIMESTAMP == U(1700000000)

\* The TGE timestamp plus a number of whole days.
DayTs(d) == Plus(TGE_TIMESTAMP, Times(U(d), U(SECONDS_PER_DAY)))

InitialValues == {U(1), U(1000000), TEN_POW_27}
TgeValues == {U(0), U(10), U(100)}
CliffValues == {U(0), U(30)}
VestingValues == {U(0), U(90), U(MAX_DAYS)}
RatioValues == {U(MIN_RATIO_PRECISION), U(1050), U(1000000), TEN_POW_16}
TypeValues == {"linear", "stepped"}
TgeTsValues == {Zero, TGE_TIMESTAMP, U256_MAX}
\* Before the TGE, at it, the cliff of 30 days, 30 and 90 days into a vesting
\* of 90 days, six stepped periods after the cliff, and the largest U256.
TimeValues ==
    {Zero, TGE_TIMESTAMP, DayTs(30), DayTs(60), DayTs(120), DayTs(570), U256_MAX}

ValidInputs ==
    [initial : InitialValues, tge_percentage : TgeValues, cliff : CliffValues,
     vesting : VestingValues, ratio_precision : RatioValues,
     tge_ts : TgeTsValues, vesting_type : TypeValues]

\* One input beyond each bound of the opening check.
InvalidInputs ==
    LET ok == [initial |-> U(1000000), tge_percentage |-> U(10), cliff |-> U(30),
               vesting |-> U(90), ratio_precision |-> U(1000000),
               tge_ts |-> TGE_TIMESTAMP, vesting_type |-> "linear"]
    IN  {[ok EXCEPT !.initial = Plus(TEN_POW_27, U(1))],
         [ok EXCEPT !.cliff = U(MAX_DAYS + 1)],
         [ok EXCEPT !.vesting = U(MAX_DAYS + 1)],
         [ok EXCEPT !.ratio_precision = U(MIN_RATIO_PRECISION - 1)],
         [ok EXCEPT !.ratio_precision = Plus(TEN_POW_16, U(1))]}

Apply(in, ts) ==
    calculate_pool_vesting(in.initial, in.tge_percentage, in.cliff, in.vesting,
                           in.ratio_precision, ts, in.tge_ts, in.vesting_type)

NoApp == [started |-> FALSE]

\* A request not yet made.
IdleReq ==
    [pc |-> "idle", kind |-> "", current_block |-> 0, block_found |-> FALSE,
     current_ts |-> Zero, matchain_results |-> << >>, matchain_block |-> 0,
     matchain_complete |-> FALSE, bsc_results |-> << >>, bsc_complete |-> FALSE,
     failed |-> "", result |-> [outcome |-> "None"], response |-> << >>]

\* The server at rest, for the specification of the calculator alone.
ServerUnused ==
    /\ excluded_address_list = << >>
    /\ pool_address_list = << >>
    /\ world = [decimals |-> 0]
    /\ head = 0
    /\ main_pc = "start"
    /\ app = NoApp
    /\ req = IdleReq

\* The calculator at rest, for the specifications that do not call it alone.
VestingUnused ==
    /\ vin = [vesting_type |-> ""]
    /\ now = Zero
    /\ calc = NoCalc
    /\ prev = NoCalc

\* The formatter at rest, for the specifications that do not call it alone.
FormatUnused ==
    /\ fin = [value |-> Zero, decimals |-> 0]
    /\ fout = NoCalc
    /\ fback = NoCalc

InitVesting ==
    /\ vin \in ValidInputs \cup InvalidInputs
    /\ now \in TimeValues
    /\ calc = NoCalc
    /\ prev = NoCalc
    /\ ServerUnused
    /\ FormatUnused

Calculate ==
    /\ ~calc.done
    /\ calc' = Done(Apply(vin, now))
    /\ UNCHANGED <<vin, now, prev>>
    /\ UNCHANGED <<serverVars, formatVars>>

Advance ==
    /\ calc.done
    /\ \E t \in TimeValues :
        /\ Gt(t, now)
        /\ now' = t
    /\ prev' = calc
    /\ calc' = NoCalc
    /\ UNCHANGED vin
    /\ UNCHANGED <<serverVars, formatVars>>

NextVesting == Calculate \/ Advance

vars == <<vestVars, serverVars, formatVars>>

SpecVesting == InitVesting /\ [][NextVesting]_vars
(***************************************************************************)
(* The formatter on its own: the arguments are drawn in the initial state, *)
(* Format calls u256_to_human and ReadBack reads the string it returned as *)
(* a decimal number scaled by 10^decimals.                                 *)
(***************************************************************************)

\* The digit a character stands for.
DigitNum(c) == CHOOSE d \in 0..9 : DigitChar[d + 1] = c

\* Limb i of the number written by the digits ds: its digits 4i-3 .. 4i
\* counted from the right.
LimbAt(ds, i) ==
    LET digit(k) == IF k >= 1 THEN DigitNum(ds[k]) ELSE 0
        e == Len(ds) - 4 * (i - 1)
    IN  digit(e) + 10 * digit(e - 1) + 100 * digit(e - 2) + 1000 * digit(e - 3)

\* The number written by a sequence of decimal digits.
DigitsValue(ds) == Norm([i \in 1..((Len(ds) + 3) \div 4) |-> LimbAt(ds, i)])

\* The string read as a decimal number and scaled by 10^decimals: the digits
\* before the point, the digits after it, and zeros up to decimals places.
read_back(str, decimals) ==
    LET dots == {k \in 1..Len(str) : str[k] = "."}
        dot == IF dots = {} THEN Len(str) + 1 ELSE MaxOf(dots)
        places == IF dots = {} THEN 0 ELSE Len(str) - dot
    IN  DigitsValue(SubSeq(str, 1, dot - 1) \o SubSeq(str, dot + 1, Len(str))
                    \o [k \in 1..(decimals - places) |-> "0"])

\* 1.2345 tokens and one token of 18 decimals, in wei.
AMOUNT_1_2345 == Times(U(12345), exp10(14))
ONE_TOKEN == exp10(18)

FormatValues ==
    {Zero, U(1), U(120), U(1005), U(100000), AMOUNT_1_2345, ONE_TOKEN,
     Plus(ONE_TOKEN, U(1)), Minus(ONE_TOKEN, U(1)), Times(U(25), exp10(17)),
     exp10(77), U256_MAX}

\* decimals is a u8.
FormatDecimals == {0, 1, 3, 18, 77, 78, 255}

InitFormat ==
    /\ fin \in [value : FormatValues, decimals : FormatDecimals]
    /\ fout = NoCalc
    /\ fback = NoCalc
    /\ VestingUnused
    /\ ServerUnused

Format ==
    /\ ~fout.done
    /\ fout' = Done(u256_to_human_call(fin.value, fin.decimals))
    /\ UNCHANGED <<fin, fback>>
    /\ UNCHANGED <<vestVars, serverVars>>

ReadBack ==
    /\ fout.done
    /\ fout.result.outcome = "Ok"
    /\ ~fback.done
    /\ fback' = Done(read_back(fout.result.value, fin.decimals))
    /\ UNCHANGED <<fin, fout>>
    /\ UNCHANGED <<vestVars, serverVars>>

NextFormat == Format \/ ReadBack

SpecFormat == InitFormat /\ [][NextFormat]_vars

(***************************************************************************)
(* The server: main starts it from the two lists, then one request runs    *)
(* through get_total_supply or get_circulating_supply, one action for each *)
(* await, while Matchain produces blocks.                                  *)
(***************************************************************************)

\* The number of blocks Matchain produces while the request runs.
MaxBlocks == 2

TeamWallet ==
    PoolEntry(<<AddressInfo("a1", "Matchain")>>, U(10), U(30), U(90), "linear", U(1000000))
BridgedWallet ==
    PoolEntry(<<AddressInfo("a2", "BSC"), AddressInfo("a1", "Matchain")>>,
              U(0), U(0), U(0), "stepped", U(500000))
\* 2 * 10^9 tokens are 2 * 10^27 wei, above the bound on initial.
OversizedWallet ==
    PoolEntry(<<AddressInfo("a2", "Matchain")>>, U(10), U(30), U(90), "linear",
              U(2000000000))

ExcludedLists ==
    {<< >>, <<TeamWallet>>, <<BridgedWallet>>, <<TeamWallet, OversizedWallet>>}

\* No on-chain pool, one, one whose address is also in the excluded list, and
\* two of which the second may be out of bounds.
PoolLists == {<< >>, <<"p1">>, <<"a1">>, <<"p1", "p2">>}

OrdinaryPool ==
    [initial |-> Tok(5000000), lock_period |-> U(30 * BLOCKS_PER_DAY),
     vesting_duration |-> U(90 * BLOCKS_PER_DAY), ratio_precision |-> U(1000000)]

\* A pool whose vesting lasts one day more than the 2190 days allowed.
OverlongPool ==
    [initial |-> Tok(7000000), lock_period |-> U(30 * BLOCKS_PER_DAY),
     vesting_duration |-> U((MAX_DAYS + 1) * BLOCKS_PER_DAY),
     ratio_precision |-> U(1000000)]

\* An ordinary day: block 0 is the last second of day 59 after the TGE.
OrdinaryWorld ==
    [total |-> [c \in {"Matchain", "BSC"} |->
                   IF c = "Matchain" THEN Tok(100000000) ELSE Tok(10000000)],
     balance |-> (<<"Matchain", ZERO_ADDRESS>> :> Tok(1000000)
                  @@ <<"BSC", ZERO_ADDRESS>> :> Zero
                  @@ <<"Matchain", "a1">> :> Tok(3000000)
                  @@ <<"Matchain", "a2">> :> Tok(250000)
                  @@ <<"BSC", "a2">> :> Tok(2000000)),
     pool |-> [a \in {"p1", "a1", "p2"} |->
                  IF a = "p2" THEN OverlongPool ELSE OrdinaryPool],
     genesis_ts |-> Minus(DayTs(60), U(1)),
     decimals |-> 18]

\* Scenario D: the excluded balance of a1 is above the total supply; more is
\* burnt on BSC than BSC holds; the pool reports an initial stake above 10^27.
DrainedWorld ==
    [total |-> [c \in {"Matchain", "BSC"} |->
                   IF c = "Matchain" THEN U(1000000) ELSE Zero],
     balance |-> (<<"Matchain", ZERO_ADDRESS>> :> Zero
                  @@ <<"BSC", ZERO_ADDRESS>> :> U(5)
                  @@ <<"Matchain", "a1">> :> U(1200000)
                  @@ <<"Matchain", "a2">> :> U(7)
                  @@ <<"BSC", "a2">> :> Zero),
     pool |-> [a \in {"p1", "a1", "p2"} |->
                  [OrdinaryPool EXCEPT !.initial = Plus(TEN_POW_27, U(1))]],
     genesis_ts |-> Minus(DayTs(120), U(1)),
     decimals |-> 0]

\* Two total supplies whose sum is beyond U256.
OverflowWorld ==
    [OrdinaryWorld EXCEPT !.total = [c \in {"Matchain", "BSC"} |->
                                        IF c = "Matchain" THEN U256_MAX ELSE Tok(1)]]

Worlds == {OrdinaryWorld, DrainedWorld, OverflowWorld}

\* The timestamp of a Matchain block.
BlockTimestamp(w, block) == Plus(w.genesis_ts, U(block))

\* The results of a whole batch served by the node.
BatchResults(w, chain, calls) == [k \in 1..Len(calls) |-> EvalCall(w, chain, calls[k])]

\* The calls of the request's multicall on a chain.
CallsOf(kind, chain) ==
    IF kind = "total" THEN total_supply_calls
    ELSE IF chain = "Matchain"
    THEN matchain_calls(app.excluded_addresses, app.onchain_pool_addresses)
    ELSE bsc_calls(app.excluded_addresses)

\* main.rs, total_supply and circulating_supply: the body of the response.
handler_response(result) ==
    IF result.outcome = "Ok" THEN result.value ELSE <<"0">>

\* The request ends: the handler answers, or the task unwinds with the panic.
Finish(result, why) ==
    [req EXCEPT !.pc = IF result.outcome = "Panic" THEN "panicked" ELSE "done",
                !.failed = why,
                !.result = result,
                !.response = IF result.outcome = "Panic" THEN << >>
                             ELSE handler_response(result)]

Init ==
    /\ excluded_address_list \in ExcludedLists
    /\ pool_address_list \in PoolLists
    /\ world \in Worlds
    /\ head = 0
    /\ main_pc = "start"
    /\ app = NoApp
    /\ req = IdleReq
    /\ VestingUnused
    /\ FormatUnused

\* main: validate_address_lists fails and the process exits.
StartupRejected ==
    /\ main_pc = "start"
    /\ ~validate_address_lists(excluded_address_list, pool_address_list).ok
    /\ main_pc' = "exited"
    /\ UNCHANGED <<excluded_address_list, pool_address_list, world, head, app, req>>
    /\ UNCHANGED <<vestVars, formatVars>>

\* main: the lists are accepted but the decimals() call fails.
StartupFailed ==
    /\ main_pc = "start"
    /\ validate_address_lists(excluded_address_list, pool_address_list).ok
    /\ main_pc' = "exited"
    /\ UNCHANGED <<excluded_address_list, pool_address_list, world, head, app, req>>
    /\ UNCHANGED <<vestVars, formatVars>>

\* main: the AppState is built and the routes are served.
Startup ==
    /\ main_pc = "start"
    /\ validate_address_lists(excluded_address_list, pool_address_list).ok
    /\ main_pc' = "serving"
    /\ app' = [started |-> TRUE,
               excluded_addresses |-> read_excluded_addresses(excluded_address_list),
               pool_data |-> read_pool_data(excluded_address_list),
               onchain_pool_addresses |-> read_onchain_pool_addresses(pool_address_list),
               tge_timestamp |-> TGE_TIMESTAMP,
               decimals |-> world.decimals]
    /\ UNCHANGED <<excluded_address_list, pool_address_list, world, head, req>>
    /\ UNCHANGED <<vestVars, formatVars>>

\* Matchain produces a block while the request is in progress.
NewBlock ==
    /\ main_pc = "serving"
    /\ req.pc \notin {"idle", "done", "panicked"}
    /\ head < MaxBlocks
    /\ head' = head + 1
    /\ UNCHANGED <<excluded_address_list, pool_address_list, world, main_pc, app, req>>
    /\ UNCHANGED <<vestVars, formatVars>>

\* GET /total-supply or GET /circulating-supply arrives.
Request ==
    /\ main_pc = "serving"
    /\ req.pc = "idle"
    /\ \E kind \in {"total", "circulating"} :
        req' = [req EXCEPT !.kind = kind,
                           !.pc = IF kind = "total" THEN "matchain_batch"
                                  ELSE "block_number"]
    /\ UNCHANGED <<excluded_address_list, pool_address_list, world, head, main_pc, app>>
    /\ UNCHANGED <<vestVars, formatVars>>

\* get_block_number().await?
GetBlockNumber ==
    /\ req.pc = "block_number"
    /\ \/ req' = [req EXCEPT !.pc = "get_block", !.current_block = head]
       \/ req' = Finish(Err("get_block_number failed"), "block_number")
    /\ UNCHANGED <<excluded_address_list, pool_address_list, world, head, main_pc, app>>
    /\ UNCHANGED <<vestVars, formatVars>>

\* get_block(current_block).await?.map(|block| block.timestamp)
\*     .unwrap_or(U256::zero())
GetBlock ==
    /\ req.pc = "get_block"
    /\ \/ req' = [req EXCEPT !.pc = "matchain_batch", !.block_found = TRUE,
                             !.current_ts = BlockTimestamp(world, req.current_block)]
       \/ req' = [req EXCEPT !.pc = "matchain_batch", !.block_found = FALSE,
                             !.current_ts = Zero]
       \/ req' = Finish(Err("get_block failed"), "get_block")
    /\ UNCHANGED <<excluded_address_list, pool_address_list, world, head, main_pc, app>>
    /\ UNCHANGED <<vestVars, formatVars>>

\* matchain_multicall.call_array().await?: an error, or the results the node
\* returns at its latest block, all of them or only the first n.
MatchainBatch ==
    /\ req.pc = "matchain_batch"
    /\ LET calls == CallsOf(req.kind, "Matchain")
       IN  \/ \E n \in 0..Len(calls) :
                req' = [req EXCEPT
                           !.pc = "bsc_batch",
                           !.matchain_results =
                               SubSeq(BatchResults(world, "Matchain", calls), 1, n),
                           !.matchain_complete = (n = Len(calls)),
                           !.matchain_block = head]
           \/ req' = Finish(Err("Matchain multicall failed"), "matchain_batch")
    /\ UNCHANGED <<excluded_address_list, pool_address_list, world, head, main_pc, app>>
    /\ UNCHANGED <<vestVars, formatVars>>

\* bsc_multicall.call_array().await? and, with its results, the rest of the
\* function and the handler's answer.
BscBatch ==
    /\ req.pc = "bsc_batch"
    /\ LET calls == CallsOf(req.kind, "BSC")
       IN  \/ \E n \in 0..Len(calls), overflow_checks \in BOOLEAN :
                LET results == SubSeq(BatchResults(world, "BSC", calls), 1, n)
                    result ==
                        IF req.kind = "total"
                        THEN total_supply_from(app, req.matchain_results, results)
                        ELSE circulating_supply_from(app, req.current_ts,
                                                     req.matchain_results, results,
                                                     overflow_checks)
                IN  req' = [Finish(result, "") EXCEPT
                               !.bsc_results = results,
                               !.bsc_complete = (n = Len(calls))]
           \/ req' = Finish(Err("BSC multicall failed"), "bsc_batch")
    /\ UNCHANGED <<excluded_address_list, pool_address_list, world, head, main_pc, app>>
    /\ UNCHANGED <<vestVars, formatVars>>

Next ==
    \/ StartupRejected
    \/ StartupFailed
    \/ Startup
    \/ NewBlock
    \/ Request
    \/ GetBlockNumber
    \/ GetBlock
    \/ MatchainBatch
    \/ BscBatch

Spec == Init /\ [][Next]_vars

(***************************************************************************)
(* Properties of calculate_pool_vesting, checked under SpecVesting.        *)
(***************************************************************************)

\* The inputs the opening check accepts, with a TGE percentage of 0..100.
IsValid(in) ==
    /\ ~InvalidVestingParameters(in.initial, in.cliff, in.vesting, in.ratio_precision)
    /\ Le(in.tge_percentage, U(100))

\* C1: for every valid input the result has locked_amount <= initial and
\* unlocked_fraction <= ratio_precision (both are unsigned, so 0 <= each).
C1_ResultWithinBounds ==
    (calc.done /\ IsValid(vin)) =>
        /\ Ge(calc.result.locked_amount, Zero)
        /\ Le(calc.result.locked_amount, vin.initial)
        /\ Ge(calc.result.unlocked_fraction, Zero)
        /\ Le(calc.result.unlocked_fraction, vin.ratio_precision)

\* A stepped pool past its cliff whose releases exceed what remains, so that
\* the final clamp is what keeps unlocked_fraction at ratio_precision.
C1_Witness ==
    /\ calc.done
    /\ IsValid(vin)
    /\ vin.vesting_type = "stepped"
    /\ Lt(vin.tge_percentage, U(100))
    /\ Ge(calc.result.days_passed, Plus(vin.cliff, U(STEP_DAYS)))
    /\ calc.result.unlocked_fraction = vin.ratio_precision
    /\ calc.result.locked_amount = Zero

\* C8: stepped vesting, valid inputs, days_passed - cliff >= 540: then
\* unlocked_fraction = ratio_precision exactly and locked_amount = 0.
C8_SteppedFullyUnlocked ==
    (/\ calc.done
     /\ IsValid(vin)
     /\ vin.vesting_type = "stepped"
     /\ Ge(calc.result.days_passed, Plus(vin.cliff, U(MAX_PERIODS * STEP_DAYS)))) =>
        /\ calc.result.unlocked_fraction = vin.ratio_precision
        /\ calc.result.locked_amount = Zero

\* max(0, floor((current_timestamp - tge_timestamp) / seconds_per_day)).
RefDaysPassed(in, ts) ==
    IF Ge(ts, in.tge_ts) THEN Div(Minus(ts, in.tge_ts), U(SECONDS_PER_DAY)) ELSE Zero

\* The reference algorithm for linear vesting as the claim states it:
\* tge_fraction = floor(tge_percentage * ratio_precision / 100).
RefUnlockedFraction(in, ts) ==
    LET days == RefDaysPassed(in, ts)
        tge_fraction == Div(Times(in.tge_percentage, in.ratio_precision), U(100))
    IN  IF Lt(days, in.cliff) \/ in.vesting = Zero THEN tge_fraction
        ELSE Min(in.ratio_precision,
                 Plus(tge_fraction,
                      Div(Times(Minus(days, in.cliff), in.ratio_precision),
                          in.vesting)))

\* initial - floor(initial * unlocked_fraction / ratio_precision).
RefLocked(in, uf) ==
    Minus(in.initial, Div(Times(in.initial, uf), in.ratio_precision))

\* The pool of the spec's scenarios A and B.
ScenarioPool(in) ==
    /\ in.initial = U(1000000)
    /\ in.tge_percentage = U(10)
    /\ in.cliff = U(30)
    /\ in.vesting = U(90)
    /\ in.ratio_precision = U(1000000)
    /\ in.tge_ts = TGE_TIMESTAMP
    /\ in.vesting_type = "linear"

AmendedUnlockedFraction(in, ts) ==
    LET days == RefDaysPassed(in, ts)
        tge_fraction == Times(in.tge_percentage, Div(in.ratio_precision, U(100)))
        product == Times(Minus(days, in.cliff), in.ratio_precision)
    IN  IF Lt(days, in.cliff) \/ in.vesting = Zero THEN tge_fraction
        ELSE Min(in.ratio_precision,
                 Plus(tge_fraction,
                      Div(IF Gt(product, U256_MAX) THEN Zero ELSE product,
                          in.vesting)))

C10_LockedNonIncreasing ==
    (/\ prev.done
     /\ calc.done
     /\ IsValid(vin)
     /\ vin.vesting_type = "linear") =>
        Le(calc.result.locked_amount, prev.result.locked_amount)

(***************************************************************************)
(* Properties of the requests, checked under Spec.                         *)
(***************************************************************************)

\* The request is over: the handler has answered or the task has unwound.
Finished == req.pc \in {"done", "panicked"}

\* A circulating-supply request that returned Ok(figure).
Served ==
    /\ req.pc = "done"
    /\ req.kind = "circulating"
    /\ req.result.outcome = "Ok"

\* max(0, a - b).
ClampedSub(a, b) == IF Ge(a, b) THEN Minus(a, b) ELSE Zero

\* The addresses that stand for a pool: every alias of an off-chain pool
\* entry, and every on-chain pool address (on Matchain).
PoolAliases ==
    UNION {{app.pool_data[k].addrs[j] : j \in 1..Len(app.pool_data[k].addrs)} :
              k \in 1..Len(app.pool_data)}
    \cup {AddressInfo(app.onchain_pool_addresses[k], "Matchain") :
             k \in 1..Len(app.onchain_pool_addresses)}

\* The balance the chain holds for an excluded address.
BalanceOf(info) == EvalCall(world, info.chain, Call("token", "balance_of", info.address))

\* The excluded balance with the balances of the pool addresses left out.
DeduplicatedExcluded ==
    SumOf([k \in 1..Len(app.excluded_addresses) |->
              IF app.excluded_addresses[k] \in PoolAliases THEN Zero
              ELSE BalanceOf(app.excluded_addresses[k])])

\* C2: no address is counted in both excluded_balance and locked_balance: the
\* balance of an excluded address that is also a pool address (an alias of an
\* off-chain pool entry, or an on-chain pool address) is left out of
\* excluded_balance.
C2_NoDoubleCounting ==
    Served => req.result.excluded_balance = DeduplicatedExcluded

\* The sum over both chains of max(0, total_supply - burn_balance), from
\* what the chains hold.
GrandTotal ==
    Plus(ClampedSub(world.total["Matchain"],
                    BalanceOf(AddressInfo(ZERO_ADDRESS, "Matchain"))),
         ClampedSub(world.total["BSC"], BalanceOf(AddressInfo(ZERO_ADDRESS, "BSC"))))

\* C3: a served request returns
\* max(0, max(0, grand_total - excluded_balance) - locked_balance), each
\* subtraction clamped on its own, as a decimal string.
C3_ClampedSubtractions ==
    Served =>
        /\ req.result.total_supply = GrandTotal
        /\ req.result.circulating_supply =
               ClampedSub(ClampedSub(GrandTotal, req.result.excluded_balance),
                          req.result.locked_balance)
        /\ req.response =
               u256_to_human(ClampedSub(ClampedSub(GrandTotal,
                                                   req.result.excluded_balance),
                                        req.result.locked_balance),
                             app.decimals)

\* Scenario D: the excluded balance is above the total supply, nothing is
\* locked any more, and the request answers "0".
C3_Witness ==
    /\ Served
    /\ Gt(req.result.total_supply, Zero)
    /\ Gt(req.result.excluded_balance, req.result.total_supply)
    /\ req.result.locked_balance = Zero
    /\ req.result.circulating_supply = Zero
    /\ req.response = <<"0">>

\* C4: the answer to a request that failed differs from the answer to a
\* request whose supply is zero.
C4_FailureDistinctFromZero ==
    (req.pc = "done" /\ req.result.outcome = "Err") =>
        req.response # u256_to_human(Zero, app.decimals)

\* Both batches were answered, and one of them with fewer results than the
\* builder had calls.
ShortResults ==
    /\ Finished
    /\ req.kind = "circulating"
    /\ req.failed = ""
    /\ ~(req.matchain_complete /\ req.bsc_complete)

\* C5: when a batch has fewer results than calls, at any position, the
\* request ends with a decode error returned to the caller.
C5_ShortResultsReturnError ==
    ShortResults => (req.pc = "done" /\ req.result.outcome = "Err")

\* The node answered get_block with no block.
NoBlockReturned ==
    /\ req.kind = "circulating"
    /\ req.pc \notin {"idle", "block_number", "get_block"}
    /\ req.failed \notin {"block_number", "get_block"}
    /\ ~req.block_found

\* C6: a failed batch call or block lookup, the node returning no block
\* included, ends the request with an error and no figure.
C6_FailedLookupAborts ==
    (/\ Finished
     /\ req.kind = "circulating"
     /\ (req.failed # "" \/ NoBlockReturned)) =>
        (req.pc = "done" /\ req.result.outcome = "Err")

\* C7: the values a served request used were read at the block whose
\* timestamp it used, whatever blocks were produced meanwhile.
C7_ReadsAtOneBlock ==
    (Served /\ req.block_found) => req.matchain_block = req.current_block

\* Pool parameters out of the bounds the claim gives: initial > 10^27,
\* cliff_days > 2190, vesting_days > 2190, ratio_precision outside
\* [1000, 10^16].
OutOfBounds(initial, cliff_days, vesting_days, ratio_precision) ==
    \/ Gt(initial, Shift(U(1000), 6))
    \/ Gt(cliff_days, U(2190))
    \/ Gt(vesting_days, U(2190))
    \/ Lt(ratio_precision, U(1000))
    \/ Gt(ratio_precision, Shift(U(1), 4))

\* Off-chain pool entry k is out of bounds (its ratio_precision is 1_000_000).
WalletOutOfBounds(k) ==
    OutOfBounds(app.pool_data[k].balance_at_tge, app.pool_data[k].cliff,
                app.pool_data[k].vesting, U(1000000))

\* The pool contract at an address reports parameters out of bounds, its two
\* periods taken in days.
PoolOutOfBounds(addr) ==
    OutOfBounds(world.pool[addr].initial,
                Div(world.pool[addr].lock_period, U(BLOCKS_PER_DAY)),
                Div(world.pool[addr].vesting_duration, U(BLOCKS_PER_DAY)),
                world.pool[addr].ratio_precision)

\* What the pools within bounds lock at the request's timestamp: zero for an
\* off-chain entry or an on-chain pool that is out of bounds.
LockedOfPoolsWithinBounds ==
    SumOf([k \in 1..Len(app.pool_data) |->
              IF WalletOutOfBounds(k) THEN Zero
              ELSE calculate_pool_vesting(app.pool_data[k].balance_at_tge,
                                          app.pool_data[k].tge_percentage,
                                          app.pool_data[k].cliff,
                                          app.pool_data[k].vesting,
                                          U(1000000), req.current_ts,
                                          app.tge_timestamp,
                                          app.pool_data[k].vesting_type).locked_amount]
          \o [k \in 1..Len(app.onchain_pool_addresses) |->
              IF PoolOutOfBounds(app.onchain_pool_addresses[k]) THEN Zero
              ELSE calculate_pool_vesting(
                       world.pool[app.onchain_pool_addresses[k]].initial, Zero,
                       Div(world.pool[app.onchain_pool_addresses[k]].lock_period,
                           U(BLOCKS_PER_DAY)),
                       Div(world.pool[app.onchain_pool_addresses[k]].vesting_duration,
                           U(BLOCKS_PER_DAY)),
                       world.pool[app.onchain_pool_addresses[k]].ratio_precision,
                       req.current_ts, app.tge_timestamp, "linear").locked_amount])

\* Some pool of the request is out of bounds.
SomePoolOutOfBounds ==
    \/ \E k \in 1..Len(app.pool_data) : WalletOutOfBounds(k)
    \/ \E k \in 1..Len(app.onchain_pool_addresses) :
           PoolOutOfBounds(app.onchain_pool_addresses[k])

\* Both batches were answered in full.
FullResults ==
    /\ Finished
    /\ req.kind = "circulating"
    /\ req.failed = ""
    /\ req.matchain_complete
    /\ req.bsc_complete

\* The two `+` sums of the request are within U256.
SumsWithinU256 ==
    /\ Le(GrandTotal, U256_MAX)
    /\ Le(SumOf([k \in 1..Len(app.excluded_addresses) |->
                    BalanceOf(app.excluded_addresses[k])]),
          U256_MAX)

\* No address of another chain stands in the excluded list before the last
\* Matchain address (the breakdown loop subtracts the number of Matchain
\* addresses from its index).
MatchainAddressesFirst ==
    \A i, j \in 1..Len(app.excluded_addresses) :
        (i < j /\ app.excluded_addresses[j].chain = "Matchain") =>
            app.excluded_addresses[i].chain = "Matchain"

RenderedFraction(fraction_part, decimals) ==
    LET ds == to_string(fraction_part)
        padded == [k \in 1..decimals |->
                      IF k <= decimals - Len(ds) THEN "0"
                      ELSE ds[k - (decimals - Len(ds))]]
        last == CHOOSE k \in 1..decimals :
                    /\ padded[k] # "0"
                    /\ \A j \in (k + 1)..decimals : padded[j] = "0"
    IN  SubSeq(padded, 1, last)

\* The exact decimal rendering of amount / 10^decimals.
Rendering(amount, decimals) ==
    IF decimals = 0 THEN to_string(amount)
    ELSE IF Mod(amount, exp10(decimals)) = Zero
    THEN to_string(Div(amount, exp10(decimals)))
    ELSE to_string(Div(amount, exp10(decimals))) \o <<".">>
         \o RenderedFraction(Mod(amount, exp10(decimals)), decimals)

\* C12: u256_to_human returns the exact decimal rendering of
\* amount / 10^decimals for every amount and every decimals: "1.2345" for
\* 1234500000000000000 and 18, "1" for 10^18 and 18, "0" for 0 and 18; and
\* the string read back and scaled by 10^decimals is the amount.
C12_ExactRendering ==
    /\ fout.done =>
        /\ fout.result.outcome = "Ok"
        /\ fout.result.value = Rendering(fin.value, fin.decimals)
        /\ (fin.value = AMOUNT_1_2345 /\ fin.decimals = 18) =>
               fout.result.value = <<"1", ".", "2", "3", "4", "5">>
        /\ (fin.value = ONE_TOKEN /\ fin.decimals = 18) =>
               fout.result.value = <<"1">>
        /\ (fin.value = Zero /\ fin.decimals = 18) =>
               fout.result.value = <<"0">>
    /\ fback.done => fback.result = fin.value

(***************************************************************************)
(* Properties of the batches and of the breakdown, checked under Spec.     *)
(***************************************************************************)

\* The excluded addresses of a chain, in list order.
ExcludedOn(chain) ==
    SelectSeq(app.excluded_addresses, LAMBDA info : info.chain = chain)

\* The name of the k-th of the four reads of a pool.
PoolField(k) ==
    CASE k = 0 -> "initial_self_stake_amount"
      [] k = 1 -> "initial_lock_period"
      [] k = 2 -> "vesting_duration"
      [] OTHER -> "ratio_precision"

\* The call the batch of a chain holds at position k (from 1): total_supply,
\* balanceOf(burn), balanceOf of the E excluded addresses of the chain and,
\* on Matchain, the four reads of every pool in list order.
BatchCallAt(chain, k) ==
    IF k = 1 THEN Call("token", "total_supply", "")
    ELSE IF k = 2 THEN Call("token", "balance_of", ZERO_ADDRESS)
    ELSE IF k <= 2 + Len(ExcludedOn(chain))
    THEN Call("token", "balance_of", ExcludedOn(chain)[k - 2].address)
    ELSE Call(app.onchain_pool_addresses[((k - 3 - Len(ExcludedOn(chain))) \div 4) + 1],
              PoolField((k - 3 - Len(ExcludedOn(chain))) % 4), "")

\* The length of the batch of a chain.
BatchLength(chain) ==
    2 + Len(ExcludedOn(chain))
    + (IF chain = "Matchain" THEN 4 * Len(app.onchain_pool_addresses) ELSE 0)

\* The batch the request built for a chain is the batch of the claim.
BuiltInOrder(chain) ==
    /\ Len(CallsOf("circulating", chain)) = BatchLength(chain)
    /\ \A k \in 1..BatchLength(chain) :
           CallsOf("circulating", chain)[k] = BatchCallAt(chain, k)

\* What the decoder made of the two result sequences of the request.
Decoded ==
    decode_results(app.excluded_addresses, app.onchain_pool_addresses,
                   req.matchain_results, req.bsc_results).value

\* Every field of the decoded record holds what the chain answers to the
\* call of that field.
DecodedInOrder ==
    /\ Decoded.total_m = world.total["Matchain"]
    /\ Decoded.burn_m = BalanceOf(AddressInfo(ZERO_ADDRESS, "Matchain"))
    /\ Decoded.matchain_excluded_balances =
           [k \in 1..Len(ExcludedOn("Matchain")) |-> BalanceOf(ExcludedOn("Matchain")[k])]
    /\ Decoded.onchain_pool_data =
           [k \in 1..Len(app.onchain_pool_addresses) |->
               onchain_pool_record(
                   world.pool[app.onchain_pool_addresses[k]].initial,
                   Div(world.pool[app.onchain_pool_addresses[k]].lock_period,
                       U(BLOCKS_PER_DAY)),
                   Div(world.pool[app.onchain_pool_addresses[k]].vesting_duration,
                       U(BLOCKS_PER_DAY)),
                   world.pool[app.onchain_pool_addresses[k]].ratio_precision)]
    /\ Decoded.total_b = world.total["BSC"]
    /\ Decoded.burn_b = BalanceOf(AddressInfo(ZERO_ADDRESS, "BSC"))
    /\ Decoded.bsc_excluded_balances =
           [k \in 1..Len(ExcludedOn("BSC")) |-> BalanceOf(ExcludedOn("BSC")[k])]

\* C13: the batch of each chain is [total_supply, balanceOf(burn),
\* balanceOf(excluded[0..E-1]), then the four reads of each pool in list
\* order], and the decoder gives the result at position k to the field
\* whose call was added at position k; the pools the request reports carry
\* the periods of their own contracts.
C13_BuiltAndDecodedInOrder ==
    FullResults =>
        /\ BuiltInOrder("Matchain")
        /\ BuiltInOrder("BSC")
        /\ DecodedInOrder
        /\ Served =>
               \A k \in 1..Len(app.onchain_pool_addresses) :
                   ~PoolOutOfBounds(app.onchain_pool_addresses[k]) =>
                       /\ req.result.pool_details[k].lock_days =
                              Div(world.pool[app.onchain_pool_addresses[k]].lock_period,
                                  U(BLOCKS_PER_DAY))
                       /\ req.result.pool_details[k].vesting_days =
                              Div(world.pool[app.onchain_pool_addresses[k]].vesting_duration,
                                  U(BLOCKS_PER_DAY))
                       /\ req.result.pool_details[k].initial_tokens =
                              u256_to_human(world.pool[app.onchain_pool_addresses[k]].initial,
                                            app.decimals)

\* A request with two excluded addresses on Matchain, of different balances,
\* and two pools: a batch of twelve calls, answered in full and decoded.
C13_Witness ==
    /\ Served
    /\ Len(ExcludedOn("Matchain")) = 2
    /\ BalanceOf(ExcludedOn("Matchain")[1]) # BalanceOf(ExcludedOn("Matchain")[2])
    /\ Len(app.onchain_pool_addresses) = 2
    /\ Len(req.matchain_results) = 12
    /\ DecodedInOrder

\* The breakdown of the request shows, for every excluded address, the
\* balance of that address on its chain.
BreakdownPairsOwnBalance ==
    \A k \in 1..Len(app.excluded_addresses) :
        req.result.excluded_details[k].balance_tokens =
            u256_to_human(BalanceOf(app.excluded_addresses[k]), app.decimals)

\* C14: whatever the order of the Matchain and BSC entries of the excluded
\* list, the breakdown loop does not abort the request (its index
\* i - number of Matchain balances is never negative) and pairs excluded
\* address i with the balance decoded for that address.
C14_BreakdownPairsEveryOrdering ==
    (FullResults /\ SumsWithinU256) =>
        /\ Served
        /\ BreakdownPairsOwnBalance
====
